---- MODULE Spec2Model ----
(***************************************************************************)
(* Model of the speech-to-text streaming core of debabelize_me's chat      *)
(* front end: ChatInterface (recording toggle, audio callback with bounded *)
(* reconnection, WebSocket result handler with the word-level utterance    *)
(* buffer and its finalize timer, send) and MessageInput (committed text   *)
(* and interim preview).                                                   *)
(*                                                                         *)
(* Strings are sequences of one-character strings, so that trim, split,    *)
(* includes and startsWith are computed as the code computes them.         *)
(***************************************************************************)
EXTENDS Integers, Sequences, FiniteSets, TLC

(***************************************************************************)
(* Bounds of the model.                                                    *)
(***************************************************************************)
\* server result frames delivered in one run
MaxMsgs == 3
\* audio callbacks in one run of the connection specification
MaxFrames == 5
\* inactive (silent) frames among them
MaxSilent == 1
\* audio callbacks in one run of the audio specification
MaxFramesAudio == 22
\* inactive (silent) frames among them in the audio specification
MaxSilentAudio == 1
\* form submissions in one run
MaxSends == 1
MaxSendsReply == 2
\* appendValue calls in one run of the input specification
MaxAppends == 2
\* audio callbacks in one run of the gate specification
MaxFramesGate == 5
\* inactive frames among them
MaxSilentGate == 3
\* samples in a frame of the gate specification
FrameLen == 10
\* samples in a frame of the conversion specification
DspLen == 6
\* SpecStop: audio callbacks, word-level finals and keepalive timers armed
MaxFramesStop == 1
MaxWordsStop == 1
MaxIntervalsStop == 1

(***************************************************************************)
(* Program constants.                                                      *)
(***************************************************************************)
maxReconnectAttempts == 3
MAX_BUFFER_SIZE == 20
RECENT_AUDIO_THRESHOLD == 2
\* amplitude thresholds of the activity test, in units of 0.0001
AmpDetect == 30
AmpNonZero == 10
AmpMean == 15
\* the sample value 1.0 in those units
One == 10000
\* sample rates in units of 100 Hz
targetSampleRate == 160
\* 0x8000 and 0x7FFF, the scale of a negative and of a positive sample
NegScale == 32768
PosScale == 32767
\* the gains 2.0, 1.5 and 1.2 in tenths, and the peaks 0.1 and 0.3 below
\* which the first two apply
GainQuiet == 20
GainMid == 15
GainLoud == 12
PeakQuiet == 1000
PeakMid == 3000
\* capture pipelines that can exist side by side (a slot is reused once its
\* pipeline is gone)
Pipes == {1, 2}

(***************************************************************************)
(* Strings.                                                                *)
(***************************************************************************)
EmptyStr == << >>

IsSpace(c) == c = " "

Lower(c) == IF c = "A" THEN "a" ELSE IF c = "B" THEN "b" ELSE c

ToLowerCase(s) == [i \in 1..Len(s) |-> Lower(s[i])]

\* String.prototype.trim
Trim(s) ==
  IF \A i \in 1..Len(s) : IsSpace(s[i]) THEN EmptyStr
  ELSE LET lo == CHOOSE i \in 1..Len(s) :
                   ~IsSpace(s[i]) /\ \A j \in 1..(i-1) : IsSpace(s[j])
           hi == CHOOSE i \in 1..Len(s) :
                   ~IsSpace(s[i]) /\ \A j \in (i+1)..Len(s) : IsSpace(s[j])
       IN SubSeq(s, lo, hi)

\* String.prototype.includes
Includes(s, t) ==
  \E i \in 1..(Len(s) - Len(t) + 1) : SubSeq(s, i, i + Len(t) - 1) = t

\* String.prototype.startsWith
StartsWith(s, t) == Len(t) <= Len(s) /\ SubSeq(s, 1, Len(t)) = t

\* String.prototype.endsWith
EndsWith(s, t) ==
  Len(t) <= Len(s) /\ SubSeq(s, Len(s) - Len(t) + 1, Len(s)) = t

\* String.prototype.split with a one-character separator
RECURSIVE Split(_, _)
Split(s, c) ==
  IF \A i \in 1..Len(s) : s[i] # c THEN << s >>
  ELSE LET k == CHOOSE i \in 1..Len(s) :
                  s[i] = c /\ \A j \in 1..(i-1) : s[j] # c
       IN << SubSeq(s, 1, k-1) >> \o Split(SubSeq(s, k+1, Len(s)), c)

IsTerminator(c) == c \in {".", "!", "?"}

\* mutant of AfterLastTerminator: the whole text counts as the last sentence
AfterLastTerminator_WholeText(s) == s

\* s.split(/[.!?]/).pop(): the part of s after its last terminator
AfterLastTerminator(s) ==
  IF \A i \in 1..Len(s) : ~IsTerminator(s[i]) THEN s
  ELSE LET k == CHOOSE i \in 1..Len(s) :
                  IsTerminator(s[i]) /\ \A j \in (i+1)..Len(s) : ~IsTerminator(s[j])
       IN SubSeq(s, k+1, Len(s))

\* String.prototype.lastIndexOf, 0-based, for a t that occurs in s
LastIndexOf(s, t) ==
  LET occ == {i \in 1..(Len(s) - Len(t) + 1) : SubSeq(s, i, i + Len(t) - 1) = t}
  IN IF occ = {} THEN -1
     ELSE (CHOOSE i \in occ : \A j \in occ : j <= i) - 1

(***************************************************************************)
(* MessageInput.appendValue: the functional update applied to the message. *)
(***************************************************************************)
MatchingWords(valueWords, prevWords) ==
  Cardinality({i \in 1..Len(valueWords) :
                 \E j \in 1..Len(prevWords) : prevWords[j] = valueWords[i]})

\* mutant of OverlapAbove70: 70% itself counts
OverlapAbove70_Inclusive(matching, total) == 10 * matching >= 7 * total

\* overlapRatio > 0.7, with overlapRatio = matching / total
OverlapAbove70(matching, total) == 10 * matching > 7 * total

AppendValueNormal(trimmedPrev, trimmedValue) ==
  LET needsSpace == /\ trimmedPrev # EmptyStr
                    /\ ~EndsWith(trimmedPrev, << " " >>)
                    /\ ~StartsWith(trimmedValue, << " " >>)
  IN IF needsSpace THEN trimmedPrev \o << " " >> \o trimmedValue
     ELSE trimmedPrev \o trimmedValue

\* mutant of appendValue: the text is always appended
appendValue_AlwaysAppends(prev, value) ==
  IF Trim(value) = EmptyStr THEN prev
  ELSE AppendValueNormal(Trim(prev), Trim(value))

appendValue(prev, value) ==
  LET trimmedValue == Trim(value)
      trimmedPrev  == Trim(prev)
      lowerValue   == ToLowerCase(trimmedValue)
      lowerPrev    == ToLowerCase(trimmedPrev)
      valueWords   == Split(lowerValue, " ")
      prevWords    == Split(lowerPrev, " ")
      lastSentence == Trim(AfterLastTerminator(trimmedPrev))
      before       == SubSeq(trimmedPrev, 1, LastIndexOf(trimmedPrev, lastSentence))
  IN IF trimmedValue = EmptyStr THEN prev
     ELSE IF trimmedPrev = EmptyStr THEN trimmedValue
     ELSE IF lowerPrev = lowerValue \/ Includes(lowerPrev, lowerValue) THEN prev
     ELSE IF OverlapAbove70(MatchingWords(valueWords, prevWords), Len(valueWords))
       THEN prev
     ELSE IF lastSentence # EmptyStr
             /\ StartsWith(lowerValue, ToLowerCase(lastSentence))
       THEN IF before # EmptyStr THEN before \o trimmedValue ELSE trimmedValue
     ELSE AppendValueNormal(trimmedPrev, trimmedValue)

(***************************************************************************)
(* State.                                                                  *)
(***************************************************************************)
VARIABLES
  isRecording,            \* useState isRecording, as of the latest render
  isRecordingRef,         \* isRecordingRef.current
  userStoppedRecording,   \* userStoppedRecording.current
  reconnectAttempts,      \* reconnectAttempts.current
  wsRef,                  \* wsRef.current: 0 for null, else the pipeline whose
                          \* current socket it is
  keepAliveIntervalRef,   \* keepAliveIntervalRef.current is not null
  intervals,              \* keepalive interval timers armed in the browser
  audioContext,           \* state of audioContextRef.current
  currentUtterance,       \* currentUtteranceRef.current
  utteranceTimeoutRef,    \* utteranceTimeoutRef.current is not null
  timerArmed,             \* the finalize timeout it names is pending
  message,                \* MessageInput: message
  interimText,            \* MessageInput: interimText
  isLoading,              \* useState isLoading
  wasRecordingBeforeReply,    \* useState wasRecordingBeforeReply
  wasRecordingBeforeReplyRef,
  pipe,                   \* the capture pipelines made by toggleRecording:
                          \* their closure variables and current socket
  orphans,                \* replaced sockets still CLOSING, handlers attached
  send,                   \* the latest handleSendMessage call
  earlier,                \* the call before it, while it is still under way
  commits,                \* arguments of the appendValue calls so far
  sentMessages,           \* contents handed to apiService.sendMessage so far
  dsp,                    \* the latest frame converted: sample rate, inputData,
                          \* resampledData, gain and pcmData
  sessions,               \* server side: the SessionManager's registry, each
                          \* streaming session with its ProviderAdapter
  lastBatch,              \* frames the latest audio callback sent, in order
  lastEvent,              \* the handler that ran last, and what it found when
                          \* it started: whether the word buffer held non-blank
                          \* text, and the reconnect counter
  stoppedByUser,          \* history: the user has stopped the recording and no
                          \* recording has been started since
  wordsSince,             \* texts of the word-level finals received since the
                          \* last timer expiry, phrase final, close, stop or send
  nMsgs, nFrames, nSilent, nSends   \* inputs consumed so far

vars == << isRecording, isRecordingRef, userStoppedRecording, reconnectAttempts,
           wsRef, keepAliveIntervalRef, intervals, audioContext, currentUtterance,
           utteranceTimeoutRef, timerArmed, message, interimText, isLoading,
           wasRecordingBeforeReply, wasRecordingBeforeReplyRef, pipe, orphans,
           send, earlier, commits, sentMessages, dsp, sessions,
           lastBatch, lastEvent, stoppedByUser, wordsSince,
           nMsgs, nFrames, nSilent, nSends >>

\* texts a result frame can carry: a word, a token with a leading space, a
\* blank, and no text at all
Texts == { << "a" >>, << " ", "b" >>, << " " >>, EmptyStr }

FreePipe == [pc |-> "free", capRec |-> FALSE, ws |-> "NONE", handlers |-> FALSE,
             ready |-> FALSE, buf |-> << >>, first |-> TRUE, recent |-> 0]

\* capRec and capWas are the isRecording and wasRecordingBeforeReply the
\* closure of the call saw
IdleSend == [pc |-> "idle", content |-> EmptyStr, capRec |-> FALSE,
             capWas |-> FALSE, wasRecording |-> FALSE]

\* the calls of handleSendMessage that can be under way: the latest one and
\* the one before it
Calls == {"send", "earlier"}

\* no frame converted yet.  A Float32Array is its samples as numerators
\* nums over one denominator den, in units of 0.0001: the arithmetic is
\* exact, the rounding of floats is left out
NoDsp == [rate |-> 0, input |-> << >>, resampled |-> [den |-> 1, nums |-> << >>],
          gain |-> 0, pcm |-> << >>]

\* transport sessions the server can hold at once
Sessions == {1, 2}

\* a registry slot with no session.  state is the session's: none, active,
\* failed or closed; adapter is the state of its ProviderAdapter; provider
\* is the provider the adapter is for; secondary tells whether a secondary
\* provider is configured; fallbacks counts the fallbacks attempted
NoSession == [state |-> "none", adapter |-> "Idle", provider |-> "primary",
              secondary |-> FALSE, fallbacks |-> 0]

\* the state as one record, so that a handler calling another composes
Cur == [isRecording |-> isRecording, isRecordingRef |-> isRecordingRef,
        userStoppedRecording |-> userStoppedRecording,
        reconnectAttempts |-> reconnectAttempts, wsRef |-> wsRef,
        keepAliveIntervalRef |-> keepAliveIntervalRef, intervals |-> intervals,
        audioContext |-> audioContext, currentUtterance |-> currentUtterance,
        utteranceTimeoutRef |-> utteranceTimeoutRef, timerArmed |-> timerArmed,
        message |-> message, interimText |-> interimText, isLoading |-> isLoading,
        wasRecordingBeforeReply |-> wasRecordingBeforeReply,
        wasRecordingBeforeReplyRef |-> wasRecordingBeforeReplyRef,
        pipe |-> pipe, orphans |-> orphans, send |-> send, earlier |-> earlier,
        commits |-> commits, dsp |-> dsp, sessions |-> sessions,
        sentMessages |-> sentMessages, lastBatch |-> lastBatch]

\* a pipeline whose processor is gone and whose socket is closed leaves no
\* trace: its slot is free again
Reclaim(S) ==
  [S EXCEPT !.pipe = [p \in Pipes |->
     IF S.pipe[p].pc = "dead" /\ S.pipe[p].ws \in {"NONE", "CLOSED"} /\ S.wsRef # p
       THEN FreePipe ELSE S.pipe[p]]]

\* the events that end a run of word-level finals: the ones that commit or
\* drop the word buffer (handleSendMessage going on after its wait does so
\* only through the stop branch)
Delimiters == {"timeout", "phrase", "close", "stop", "submit", "sendStop"}

Set(S0, ev, text) ==
  LET S == Reclaim(S0) IN
  /\ isRecording' = S.isRecording
  /\ isRecordingRef' = S.isRecordingRef
  /\ userStoppedRecording' = S.userStoppedRecording
  /\ reconnectAttempts' = S.reconnectAttempts
  /\ wsRef' = S.wsRef
  /\ keepAliveIntervalRef' = S.keepAliveIntervalRef
  /\ intervals' = S.intervals
  /\ audioContext' = S.audioContext
  /\ currentUtterance' = S.currentUtterance
  /\ utteranceTimeoutRef' = S.utteranceTimeoutRef
  /\ timerArmed' = S.timerArmed
  /\ message' = S.message
  /\ interimText' = S.interimText
  /\ isLoading' = S.isLoading
  /\ wasRecordingBeforeReply' = S.wasRecordingBeforeReply
  /\ wasRecordingBeforeReplyRef' = S.wasRecordingBeforeReplyRef
  /\ pipe' = S.pipe
  /\ orphans' = S.orphans
  /\ send' = S.send
  /\ earlier' = S.earlier
  /\ commits' = S.commits
  /\ dsp' = S.dsp
  /\ sessions' = S.sessions
  /\ sentMessages' = S.sentMessages
  /\ lastBatch' = S.lastBatch
  /\ lastEvent' = [name |-> ev, hadPending |-> Trim(currentUtterance) # EmptyStr,
                    attempts |-> reconnectAttempts]
  /\ stoppedByUser' =
       IF ev = "stop" THEN TRUE
       ELSE IF \E p \in Pipes : S.pipe[p].pc = "awaitMedia" /\ pipe[p].pc # "awaitMedia"
         THEN FALSE
       ELSE stoppedByUser
  /\ wordsSince' = IF ev = "word" THEN Append(wordsSince, text)
                   ELSE IF ev \in Delimiters THEN << >>
                   ELSE wordsSince

Init ==
  /\ isRecording = FALSE
  /\ isRecordingRef = FALSE
  /\ userStoppedRecording = FALSE
  /\ reconnectAttempts = 0
  /\ wsRef = 0
  /\ keepAliveIntervalRef = FALSE
  /\ intervals = 0
  /\ audioContext = "suspended"
  /\ currentUtterance = EmptyStr
  /\ utteranceTimeoutRef = FALSE
  /\ timerArmed = FALSE
  /\ message = EmptyStr
  /\ interimText = EmptyStr
  /\ isLoading = FALSE
  /\ wasRecordingBeforeReply = FALSE
  /\ wasRecordingBeforeReplyRef = FALSE
  /\ pipe = [p \in Pipes |-> FreePipe]
  /\ orphans = 0
  /\ send = IdleSend
  /\ earlier = IdleSend
  /\ dsp = NoDsp
  /\ sessions = [s \in Sessions |-> NoSession]
  /\ commits = << >>
  /\ sentMessages = << >>
  /\ lastBatch = << >>
  /\ lastEvent = [name |-> "init", hadPending |-> FALSE, attempts |-> 0]
  /\ stoppedByUser = FALSE
  /\ wordsSince = << >>
  /\ nMsgs = 0
  /\ nFrames = 0
  /\ nSilent = 0
  /\ nSends = 0

(***************************************************************************)
(* Handlers, as functions from the state record to the state record.       *)
(***************************************************************************)
\* messageInputRef.current?.appendValue(value): the message update, the
\* preview cleared, and the call recorded
DoAppend(S, value) ==
  [S EXCEPT !.message = appendValue(S.message, value),
            !.interimText = EmptyStr,
            !.commits = Append(S.commits, value)]

\* mutant of ClearUtteranceTimeout: the reference is dropped, the timeout
\* is left pending
ClearUtteranceTimeout_RefOnly(S) == [S EXCEPT !.utteranceTimeoutRef = FALSE]

\* if (utteranceTimeoutRef.current) { clearTimeout(...); ref = null }
ClearUtteranceTimeout(S) ==
  [S EXCEPT !.timerArmed = IF S.utteranceTimeoutRef THEN FALSE ELSE S.timerArmed,
            !.utteranceTimeoutRef = FALSE]

\* mutant of FinalizePending: the committed text stays in the buffer
FinalizePending_KeepsBuffer(S) ==
  IF Trim(S.currentUtterance) # EmptyStr
    THEN [DoAppend(S, Trim(S.currentUtterance)) EXCEPT !.interimText = EmptyStr]
    ELSE S

\* if (currentUtteranceRef.current.trim()) { appendValue(trim);
\*   clearInterimText(); currentUtteranceRef.current = '' }
FinalizePending(S) ==
  IF Trim(S.currentUtterance) # EmptyStr
    THEN [DoAppend(S, Trim(S.currentUtterance)) EXCEPT
            !.interimText = EmptyStr, !.currentUtterance = EmptyStr]
    ELSE S

\* mutant of OnWord: the word is appended without the separating space
OnWord_NoSeparator(S, text) ==
  LET u == S.currentUtterance \o text
  IN [S EXCEPT !.currentUtterance = u,
               !.interimText = u,
               !.utteranceTimeoutRef = TRUE,
               !.timerArmed = TRUE]

\* ws.onmessage, word-level final: data.is_final && data.is_word
OnWord(S, text) ==
  LET u == S.currentUtterance
           \o (IF S.currentUtterance # EmptyStr THEN << " " >> ELSE EmptyStr)
           \o text
  IN [S EXCEPT !.currentUtterance = u,
               !.interimText = u,
               !.utteranceTimeoutRef = TRUE,
               !.timerArmed = TRUE]

\* ws.onmessage, phrase-level final: data.is_final && !data.is_word
OnPhraseFinal(S, text) ==
  ClearUtteranceTimeout(
    [DoAppend(S, text) EXCEPT !.interimText = EmptyStr,
                              !.currentUtterance = EmptyStr])

\* mutant of OnInterim: the interim text is committed like a final
OnInterim_Commits(S, text) ==
  IF Trim(text) # EmptyStr THEN DoAppend(S, text) ELSE S

\* ws.onmessage, interim result
OnInterim(S, text) ==
  IF Trim(text) # EmptyStr THEN [S EXCEPT !.interimText = text] ELSE S

\* ws.onmessage for a result frame {text, is_final, is_word}
OnMessage(S, isFinal, isWord, text) ==
  IF text = EmptyStr THEN S
  ELSE IF isFinal /\ isWord THEN OnWord(S, text)
  ELSE IF isFinal /\ ~isWord THEN OnPhraseFinal(S, text)
  ELSE OnInterim(S, text)

\* mutant of OnNonResult: the frame ends the utterance in progress
OnNonResult_Resets(S, kind) ==
  [ClearUtteranceTimeout(S) EXCEPT !.currentUtterance = EmptyStr,
                                   !.interimText = EmptyStr]

\* ws.onmessage for a frame that is not a result: JSON.parse throws
\* ("unparseable"), the frame parses to null and reading data.error throws
\* ("null"), or data.error is set and is logged ("error"); the handler ends
\* there
OnNonResult(S, kind) == S

\* mutant of OnUtteranceTimeout: the committed words stay in the buffer
OnUtteranceTimeout_KeepsBuffer(S) ==
  LET S1 == [S EXCEPT !.timerArmed = FALSE]
  IN IF Trim(S1.currentUtterance) # EmptyStr
       THEN [DoAppend(S1, Trim(S1.currentUtterance)) EXCEPT !.interimText = EmptyStr]
       ELSE S1

\* the callback of the finalize timeout
OnUtteranceTimeout(S) ==
  LET S1 == [S EXCEPT !.timerArmed = FALSE]
  IN IF Trim(S1.currentUtterance) # EmptyStr
       THEN [DoAppend(S1, Trim(S1.currentUtterance)) EXCEPT
               !.interimText = EmptyStr, !.currentUtterance = EmptyStr]
       ELSE S1

\* mutant of OnClose: the buffer is dropped instead of committed
OnClose_Discards(S) ==
  [ClearUtteranceTimeout(S) EXCEPT !.currentUtterance = EmptyStr]

\* ws.onclose
OnClose(S) == FinalizePending(ClearUtteranceTimeout(S))

\* mutant of OnOpen: the reconnect counter is not reset
OnOpen_NoReset(S, p) ==
  [S EXCEPT !.pipe[p].ready = TRUE,
            !.keepAliveIntervalRef = TRUE,
            !.intervals = S.intervals + 1]

\* ws.onopen (and the wrapper a reconnected socket gets, which sets the
\* ready flag and calls it)
OnOpen(S, p) ==
  [S EXCEPT !.pipe[p].ready = TRUE,
            !.reconnectAttempts = 0,
            !.keepAliveIntervalRef = TRUE,
            !.intervals = S.intervals + 1]

\* ws.close() where the code guards it by readyState OPEN or CONNECTING
CloseSocket(S, p) ==
  IF S.pipe[p].ws \in {"OPEN", "CONNECTING"}
    THEN [S EXCEPT !.pipe[p].ws = "CLOSING"] ELSE S

\* audioContext.close(): no pipeline on it gets another callback, and a
\* resume() still pending on it fails
CloseAudioContext(S) ==
  [S EXCEPT !.audioContext = "closed",
            !.pipe = [q \in Pipes |->
               IF S.pipe[q].pc = "live" THEN [S.pipe[q] EXCEPT !.pc = "dead"]
               ELSE IF S.pipe[q].pc = "awaitResume"
                 THEN [S.pipe[q] EXCEPT !.pc = "awaitClosed"]
               ELSE S.pipe[q]]]

\* mutant of StopBranch: the pending utterance is not finalized
StopBranch_NoFinalize(S, programmaticStop) ==
  LET S1 == [S EXCEPT !.userStoppedRecording = ~programmaticStop,
                      !.isRecording = FALSE,
                      !.isRecordingRef = FALSE]
      S3 == [ClearUtteranceTimeout(S1) EXCEPT !.currentUtterance = EmptyStr]
      p  == S3.wsRef
      S4 == IF p # 0 /\ S3.pipe[p].handlers
              THEN CloseAudioContext([S3 EXCEPT !.pipe[p].pc = "dead"])
              ELSE S3
  IN IF p # 0 THEN [CloseSocket(S4, p) EXCEPT !.wsRef = 0] ELSE S4

\* toggleRecording, stop branch
StopBranch(S, programmaticStop) ==
  LET S1 == [S EXCEPT !.userStoppedRecording = ~programmaticStop,
                      !.isRecording = FALSE,
                      !.isRecordingRef = FALSE]
      S2 == IF S1.keepAliveIntervalRef
              THEN [S1 EXCEPT !.intervals = S1.intervals - 1,
                              !.keepAliveIntervalRef = FALSE]
              ELSE S1
      S3 == FinalizePending(ClearUtteranceTimeout(S2))
      p  == S3.wsRef
      \* processor, source, audioContext and streams hang on the socket only
      \* once the pipeline has been set up
      S4 == IF p # 0 /\ S3.pipe[p].handlers
              THEN CloseAudioContext([S3 EXCEPT !.pipe[p].pc = "dead"])
              ELSE S3
      S5 == IF p # 0 THEN [CloseSocket(S4, p) EXCEPT !.wsRef = 0] ELSE S4
  IN S5

\* toggleRecording, start branch up to await getUserMedia; slot is the
\* pipeline the call goes on to build
StartBranch(S, capRec, slot) ==
  LET S1 == [S EXCEPT !.userStoppedRecording = FALSE, !.reconnectAttempts = 0]
      S2 == IF S1.wsRef # 0
              THEN [CloseSocket(S1, S1.wsRef) EXCEPT !.wsRef = 0] ELSE S1
  IN [S2 EXCEPT !.isRecording = TRUE,
                !.isRecordingRef = TRUE,
                !.pipe[slot] = [FreePipe EXCEPT !.pc = "awaitMedia",
                                                !.capRec = capRec]]

HasFreeSlot(S) == \E p \in Pipes : S.pipe[p].pc = "free"
FreeSlot(S) == CHOOSE p \in Pipes :
                 S.pipe[p].pc = "free" /\ \A q \in Pipes : S.pipe[q].pc = "free" => p <= q

\* toggleRecording(programmaticStop, forceStart) called from a closure that
\* saw isRecording = capRec
StartsRecording(capRec, forceStart) == ~capRec \/ forceStart

toggleRecording(S, programmaticStop, forceStart, capRec) ==
  IF StartsRecording(capRec, forceStart)
    THEN StartBranch(S, capRec, FreeSlot(S))
    ELSE StopBranch(S, programmaticStop)

\* toggleRecording after getUserMedia: source, processor and handlers
SetupPipeline(S, p) ==
  [S EXCEPT !.pipe[p].pc = "live", !.pipe[p].handlers = TRUE]

\* toggleRecording after getUserMedia resolved: new WebSocket, then the
\* AudioContext (a new one is running; the one made at mount is suspended
\* and has to be resumed first)
AfterGetUserMedia(S, p) ==
  LET S1 == [S EXCEPT !.pipe[p].ws = "CONNECTING", !.wsRef = p]
  IN IF S1.audioContext = "closed"
       THEN SetupPipeline([S1 EXCEPT !.audioContext = "running"], p)
     ELSE IF S1.audioContext = "suspended"
       THEN [S1 EXCEPT !.pipe[p].pc = "awaitResume"]
     ELSE SetupPipeline(S1, p)

(***************************************************************************)
(* processor.onaudioprocess of pipeline p, for frame f (frames are named   *)
(* by their capture number), whose activity test gave hasAudio.            *)
(***************************************************************************)
\* mutant of MayReconnect: one attempt more than the ceiling
MayReconnect_OneMore(attempts) == attempts <= maxReconnectAttempts

\* reconnectAttempts.current < maxReconnectAttempts
MayReconnect(attempts) == attempts < maxReconnectAttempts

\* the reconnect: a new socket with the same handlers replaces ws
Reconnect(S, p) ==
  [S EXCEPT !.reconnectAttempts = S.reconnectAttempts + 1,
            !.orphans = IF S.pipe[p].ws = "CLOSING" /\ S.pipe[p].handlers
                          THEN S.orphans + 1 ELSE S.orphans,
            !.pipe[p].ws = "CONNECTING",
            !.pipe[p].handlers = TRUE,
            !.pipe[p].ready = FALSE,
            !.wsRef = p]

\* max attempts reached: isRecording is the value the closure captured
GiveUp(S, p) ==
  IF S.pipe[p].capRec /\ ~S.userStoppedRecording
    THEN [S EXCEPT !.userStoppedRecording = TRUE,
                   !.isRecording = FALSE,
                   !.isRecordingRef = FALSE]
    ELSE S

\* mutant of RecentAfter: an active frame leaves no allowance for the
\* frames after it
RecentAfter_NoTrail(recent, hasAudio) ==
  IF hasAudio THEN 1
  ELSE IF recent - 1 > 0 THEN recent - 1 ELSE 0

\* recentAudioFramesWithActivity after the frame
RecentAfter(recent, hasAudio) ==
  IF hasAudio THEN RECENT_AUDIO_THRESHOLD
  ELSE IF recent - 1 > 0 THEN recent - 1 ELSE 0

RECURSIVE SumOf(_)
SumOf(samples) ==
  IF samples = << >> THEN 0 ELSE Head(samples) + SumOf(Tail(samples))

\* the activity test on the absolute sample values of a frame: the loop,
\* then the backup detection for quiet speech
HasAudio(samples) ==
  LET loud == \E i \in DOMAIN samples : samples[i] > AmpDetect
      nonZeroSamples == Cardinality({i \in DOMAIN samples : samples[i] > AmpNonZero})
  IN IF ~loud /\ 10 * nonZeroSamples > Len(samples)
       THEN SumOf(samples) > AmpMean * Len(samples)
       ELSE loud

\* mutant of Gated: every inactive frame after the first is skipped
Gated_NoDecay(hasAudio, recent, first) == ~hasAudio /\ ~first

\* the frame is skipped as silence
Gated(hasAudio, recent, first) == ~hasAudio /\ recent = 0 /\ ~first

\* mutant of BufferPush: no capacity test
BufferPush_Unbounded(buf, f) == Append(buf, f)

\* mutant of BufferPush: at capacity the oldest frame makes room
BufferPush_DropOldest(buf, f) ==
  IF Len(buf) < MAX_BUFFER_SIZE THEN Append(buf, f) ELSE Append(Tail(buf), f)

\* if (audioBuffer.length < MAX_BUFFER_SIZE) audioBuffer.push(chunk)
BufferPush(buf, f) == IF Len(buf) < MAX_BUFFER_SIZE THEN Append(buf, f) ELSE buf

\* mutant of WhileConnecting: a socket still connecting is treated as closed
WhileConnecting_AsClosed(S, p, f) ==
  IF MayReconnect(S.reconnectAttempts) THEN Reconnect(S, p) ELSE GiveUp(S, p)

\* what a callback does while the socket is CONNECTING
WhileConnecting(S, p, f) == S

\* from the activity tracker on: gate, then buffer or send
Forward(S, p, f, hasAudio) ==
  LET r  == RecentAfter(S.pipe[p].recent, hasAudio)
      S1 == [S EXCEPT !.pipe[p].recent = r]
  IN IF Gated(hasAudio, r, S.pipe[p].first) THEN S1
     ELSE IF ~S.pipe[p].ready
       THEN [S1 EXCEPT !.pipe[p].buf = BufferPush(S.pipe[p].buf, f),
                       !.pipe[p].first = FALSE]
     ELSE [S1 EXCEPT !.lastBatch = S.pipe[p].buf \o << f >>,
                     !.pipe[p].buf = << >>,
                     !.pipe[p].first = FALSE]

OnAudioProcess(S0, p, f, hasAudio) ==
  LET S == [S0 EXCEPT !.lastBatch = << >>]
  IN IF S.userStoppedRecording THEN S
     ELSE IF S.pipe[p].ws = "CONNECTING" THEN WhileConnecting(S, p, f)
     ELSE IF S.pipe[p].ws \in {"CLOSED", "CLOSING"}
       THEN IF MayReconnect(S.reconnectAttempts) THEN Reconnect(S, p)
            ELSE GiveUp(S, p)
     ELSE Forward(S, p, f, hasAudio)

\* the branch of onaudioprocess the frame takes
AudioBranch(S, p, hasAudio) ==
  IF S.userStoppedRecording THEN "audioStopped"
  ELSE IF S.pipe[p].ws = "CONNECTING" THEN "audioConnecting"
  ELSE IF S.pipe[p].ws \in {"CLOSED", "CLOSING"}
    THEN IF MayReconnect(S.reconnectAttempts) THEN "audioReconnect"
         ELSE "audioGiveUp"
  ELSE IF Gated(hasAudio, RecentAfter(S.pipe[p].recent, hasAudio), S.pipe[p].first)
    THEN "audioGated"
  ELSE IF ~S.pipe[p].ready THEN "audioBuffered"
  ELSE "audioSent"

(***************************************************************************)
(* The SessionManager and the ProviderAdapter state machine of the server. *)
(* The server is not among the sources: this part follows sections 4.3,    *)
(* 4.5 and 7 of the specification.                                         *)
(***************************************************************************)
\* the adapter states from which a provider failure leads to Errored
NonTerminal == {"Idle", "Starting", "Streaming", "Stopping"}

\* transport connect: the session is created and bound to an adapter of
\* the configured provider, which is started
CreateSession(r, secondary) ==
  [state |-> "active", adapter |-> "Starting", provider |-> "primary",
   secondary |-> secondary, fallbacks |-> 0]

\* mutant of MayFallBack: a fallback is attempted after every failure
MayFallBack_Always(r) == r.secondary

\* a fallback is attempted once, and only to a configured secondary
MayFallBack(r) == r.secondary /\ r.fallbacks = 0

\* the SessionManager finds the adapter Errored: one fallback to the
\* secondary provider, else the session is failed and torn down
OnAdapterErrored(r) ==
  IF MayFallBack(r)
    THEN [r EXCEPT !.adapter = "Starting", !.provider = "secondary",
                   !.fallbacks = r.fallbacks + 1]
    ELSE [r EXCEPT !.state = "failed", !.adapter = "Closed"]

\* transport close or the end of an explicit stop: the adapter is torn
\* down and the slot released
TearDown(r) == [r EXCEPT !.state = "closed", !.adapter = "Closed"]

(***************************************************************************)
(* onaudioprocess from the resampling to the Int16Array: numbers are exact *)
(* rationals, a sample x being x / 10000.                                  *)
(***************************************************************************)
Abs(x) == IF x < 0 THEN -x ELSE x

\* storing a whole number in an Int16Array keeps its low 16 bits
ToInt16(x) == ((x + 32768) % 65536) - 32768

\* maxAmplitude over inputData
RECURSIVE MaxAmplitude(_)
MaxAmplitude(samples) ==
  IF samples = << >> THEN 0
  ELSE LET m == MaxAmplitude(Tail(samples))
           a == Abs(Head(samples))
       IN IF a > m THEN a ELSE m

\* mutant of SrcIndex: the ratio the other way round
SrcIndex_Inverted(i, rate) == [num |-> i * targetSampleRate, den |-> rate]

\* srcIndex = i / resampleRatio with resampleRatio = targetSampleRate /
\* sourceSampleRate, as a fraction
SrcIndex(i, rate) == [num |-> i * rate, den |-> targetSampleRate]

\* targetLength = Math.floor(inputData.length * resampleRatio)
TargetLength(n, rate) == (n * targetSampleRate) \div rate

\* resampledData[i] of the interpolation loop, i from 0, times the
\* denominator of srcIndex
Interpolated(input, rate, i) ==
  LET idx == SrcIndex(i, rate)
      srcIndexFloor == idx.num \div idx.den
      frac == idx.num % idx.den
      srcIndexCeil == IF frac = 0 THEN srcIndexFloor ELSE srcIndexFloor + 1
  IN IF srcIndexCeil >= Len(input)
       THEN input[Len(input)] * idx.den
       ELSE input[srcIndexFloor + 1] * (idx.den - frac) + input[srcIndexCeil + 1] * frac

\* mutant of Resample: the interpolation loop runs as if the source rate
\* were twice what it is
Resample_DoubleRate(input, rate) ==
  [den |-> SrcIndex(1, 2 * rate).den,
   nums |-> [i \in 1..TargetLength(Len(input), 2 * rate) |->
               Interpolated(input, 2 * rate, i - 1)]]

\* resampledData
Resample(input, rate) ==
  IF rate # targetSampleRate
    THEN [den |-> SrcIndex(1, rate).den,
          nums |-> [i \in 1..TargetLength(Len(input), rate) |->
                      Interpolated(input, rate, i - 1)]]
    ELSE [den |-> 1, nums |-> input]

\* gain, in tenths
Gain(maxAmplitude) ==
  IF maxAmplitude < PeakQuiet THEN GainQuiet
  ELSE IF maxAmplitude < PeakMid THEN GainMid ELSE GainLoud

\* mutant of Clamp: the sample is left as it is
Clamp_None(num, one) == num

\* Math.max(-1, Math.min(1, boostedSample)) for the sample num / one
Clamp(num, one) == IF num > one THEN one ELSE IF num < -one THEN -one ELSE num

\* Math.trunc of c * scale / (k * One) for c >= 0, taken in two steps so
\* that no intermediate product leaves the range of the model's integers
ScaledDown(c, scale, k) ==
  ((c \div k) * scale + ((c % k) * scale) \div k) \div One

\* pcmData[i] for the resampled sample num / (den * 10000) and the gain in
\* tenths: boost, clamp, scale, store
Quantize(num, den, gain) ==
  LET k == den * 10
      clampedSample == Clamp(num * gain, k * One)
  IN ToInt16(IF clampedSample < 0
               THEN -ScaledDown(-clampedSample, NegScale, k)
               ELSE ScaledDown(clampedSample, PosScale, k))

\* the conversion of one frame
Convert(rate, input) ==
  LET resampled == Resample(input, rate)
      gain == Gain(MaxAmplitude(input))
  IN [rate |-> rate, input |-> input, resampled |-> resampled, gain |-> gain,
      pcm |-> [i \in 1..Len(resampled.nums) |->
                 Quantize(resampled.nums[i], resampled.den, gain)]]

(***************************************************************************)
(* handleSendMessage from its first line to await apiService.sendMessage,  *)
(* without the finalize-before-send block: capRec is the isRecording the   *)
(* closure saw.                                                            *)
(***************************************************************************)
SendRest(S, capRec, content) ==
  LET wasRecording == S.isRecordingRef \/ capRec
      S1 == [S EXCEPT !.wasRecordingBeforeReply = wasRecording,
                      !.wasRecordingBeforeReplyRef = wasRecording]
      S2 == IF wasRecording THEN toggleRecording(S1, TRUE, FALSE, capRec) ELSE S1
  IN [S2 EXCEPT !.interimText = EmptyStr,
                !.sentMessages = Append(S2.sentMessages, content),
                !.isLoading = TRUE,
                !.send = [pc |-> "inflight", content |-> content, capRec |-> capRec,
                          capWas |-> S.send.capWas, wasRecording |-> wasRecording]]

\* the finalize-before-send block of handleSendMessage
FinalizeBeforeSend(S) ==
  [DoAppend(ClearUtteranceTimeout(S), Trim(S.currentUtterance)) EXCEPT
     !.currentUtterance = EmptyStr]

\* MessageInput.handleSubmit calling handleSendMessage(message.trim()), then
\* setMessage('') and setInterimText('')
HandleSubmit(S0) ==
  LET S == IF S0.send.pc = "idle" THEN S0
           ELSE [S0 EXCEPT !.earlier = S0.send, !.send = IdleSend]
      content == Trim(S.message)
      S1 == IF Trim(S.currentUtterance) # EmptyStr
              THEN [FinalizeBeforeSend(S) EXCEPT
                      !.send = [pc |-> "wait", content |-> content,
                                capRec |-> S.isRecording,
                                capWas |-> S.wasRecordingBeforeReply,
                                wasRecording |-> FALSE]]
              ELSE SendRest([S EXCEPT !.send.capWas = S.wasRecordingBeforeReply],
                            S.isRecording, content)
  IN [S1 EXCEPT !.message = EmptyStr, !.interimText = EmptyStr]

(***************************************************************************)
(* handleSendMessage from the reply on.  send.pc follows the call: inflight *)
(* (await apiService.sendMessage), tts (await apiService.textToSpeech),     *)
(* playing (the 'ended' listener is waiting), restartTimer and errorTimer   *)
(* (a 500 ms timeout is pending), idle.                                     *)
(***************************************************************************)
\* restartRecordingIfNeeded of the call c, with the wasRecordingBeforeReply
\* and isRecording of its closure
RestartRecordingIfNeeded(S, c) ==
  IF S.wasRecordingBeforeReplyRef \/ S[c].capWas
    THEN toggleRecording([S EXCEPT !.userStoppedRecording = FALSE,
                                   !.wasRecordingBeforeReply = FALSE,
                                   !.wasRecordingBeforeReplyRef = FALSE],
                         FALSE, TRUE, S[c].capRec)
    ELSE S

\* the timeout callback of the catch block
RestartAfterError(S, c) ==
  toggleRecording([S EXCEPT !.userStoppedRecording = FALSE,
                            !.wasRecordingBeforeReply = FALSE,
                            !.wasRecordingBeforeReplyRef = FALSE],
                  FALSE, TRUE, S[c].capRec)

\* apiService.sendMessage settles: the reply is shown, then speech is
\* requested or the restart scheduled; on failure the catch block
\* schedules the restart if recording was on; finally ends the loading
OnReply(S, c, ok, playback) ==
  IF ok /\ playback THEN [S EXCEPT ![c].pc = "tts"]
  ELSE IF ok THEN [S EXCEPT ![c].pc = "restartTimer", !.isLoading = FALSE]
  ELSE IF S.wasRecordingBeforeReplyRef \/ S[c].capWas
    THEN [S EXCEPT ![c].pc = "errorTimer", !.isLoading = FALSE]
  ELSE [S EXCEPT ![c] = IdleSend, !.isLoading = FALSE]

\* apiService.textToSpeech settles: the audio plays and its 'ended'
\* listener is set, or the catch schedules the restart
OnTtsSettled(S, c, ok) ==
  [S EXCEPT ![c].pc = IF ok THEN "playing" ELSE "restartTimer",
            !.isLoading = FALSE]

\* the 'ended' listener, or the timeout, calls restartRecordingIfNeeded
OnRestartDue(S, c) == [RestartRecordingIfNeeded(S, c) EXCEPT ![c] = IdleSend]

\* the timeout of the catch block fires
OnErrorTimer(S, c) == [RestartAfterError(S, c) EXCEPT ![c] = IdleSend]

(***************************************************************************)
(* Actions: one per event the browser delivers.                            *)
(***************************************************************************)
KeepInputs == UNCHANGED << nMsgs, nFrames, nSilent, nSends >>

\* pipelines in existence
InUse == {p \in Pipes : pipe[p].pc # "free"}

\* the user clicks the microphone button: toggleRecording(false, false);
\* a click that starts a recording is taken only while fewer than maxPipes
\* pipelines exist
UserToggle(maxPipes) ==
  /\ StartsRecording(isRecording, FALSE) => Cardinality(InUse) < maxPipes
  /\ Set(toggleRecording(Cur, FALSE, FALSE, isRecording),
         IF StartsRecording(isRecording, FALSE) THEN "start" ELSE "stop", EmptyStr)
  /\ KeepInputs

\* getUserMedia settles: rejected, the catch block only reports it
GotUserMedia(p, ok) ==
  /\ pipe[p].pc = "awaitMedia"
  /\ IF ok THEN Set(AfterGetUserMedia(Cur, p), "media", EmptyStr)
     ELSE Set([Cur EXCEPT !.pipe[p] = FreePipe], "mediaRefused", EmptyStr)
  /\ KeepInputs

\* audioContext.resume() settles
Resumed(p) ==
  /\ pipe[p].pc \in {"awaitResume", "awaitClosed"}
  /\ IF pipe[p].pc = "awaitResume"
       THEN Set(SetupPipeline([Cur EXCEPT !.audioContext = "running"], p), "resumed", EmptyStr)
       ELSE Set([Cur EXCEPT !.pipe[p].pc = "dead"], "resumeFailed", EmptyStr)
  /\ KeepInputs

\* the socket of pipeline p opens; onopen runs if it is attached by then
WsOpen(p) ==
  /\ pipe[p].ws = "CONNECTING"
  /\ LET S == [Cur EXCEPT !.pipe[p].ws = "OPEN"]
     IN Set(IF pipe[p].handlers THEN OnOpen(S, p) ELSE S,
            IF pipe[p].handlers THEN "open" ELSE "openUnheard", EmptyStr)
  /\ KeepInputs

\* the socket of pipeline p closes (connection refused, dropped, or the
\* closing handshake done); onclose runs if it is attached
WsClosed(p) ==
  /\ pipe[p].ws \in {"CONNECTING", "OPEN", "CLOSING"}
  /\ LET S == [Cur EXCEPT !.pipe[p].ws = "CLOSED"]
     IN Set(IF pipe[p].handlers THEN OnClose(S) ELSE S,
            IF pipe[p].handlers THEN "close" ELSE "closeUnheard", EmptyStr)
  /\ KeepInputs

\* a replaced socket finishes closing
OrphanClosed ==
  /\ orphans > 0
  /\ Set(OnClose([Cur EXCEPT !.orphans = orphans - 1]), "close", EmptyStr)
  /\ KeepInputs

\* some socket can still deliver a message to ws.onmessage
CanReceive ==
  \/ orphans > 0
  \/ \E p \in Pipes : pipe[p].handlers /\ pipe[p].ws \in {"OPEN", "CLOSING"}

\* a result frame arrives
WsMessage(isFinal, isWord, text) ==
  /\ CanReceive
  /\ nMsgs < MaxMsgs
  /\ Set(OnMessage(Cur, isFinal, isWord, text),
         IF text = EmptyStr THEN "noText"
         ELSE IF isFinal /\ isWord THEN "word"
         ELSE IF isFinal THEN "phrase" ELSE "interim",
         text)
  /\ nMsgs' = nMsgs + 1
  /\ UNCHANGED << nFrames, nSilent, nSends >>

\* the finalize timeout expires
UtteranceTimeout ==
  /\ timerArmed
  /\ Set(OnUtteranceTimeout(Cur), "timeout", EmptyStr)
  /\ KeepInputs

\* the processor of pipeline p delivers a frame
AudioProcess(p, hasAudio, maxFrames, maxSilent) ==
  /\ pipe[p].pc = "live"
  /\ nFrames < maxFrames
  /\ hasAudio \/ nSilent < maxSilent
  /\ Set(OnAudioProcess(Cur, p, nFrames + 1, hasAudio),
         AudioBranch(Cur, p, hasAudio), EmptyStr)
  /\ nFrames' = nFrames + 1
  /\ nSilent' = IF hasAudio THEN nSilent ELSE nSilent + 1
  /\ UNCHANGED << nMsgs, nSends >>

\* the user submits the form (disabled is false throughout)
Submit(maxSends, overlap) ==
  /\ \/ send.pc = "idle"
     \/ overlap /\ send.pc # "wait" /\ earlier.pc = "idle"
  /\ nSends < maxSends
  /\ Trim(message) # EmptyStr
  /\ Set(HandleSubmit(Cur), "submit", EmptyStr)
  /\ nSends' = nSends + 1
  /\ UNCHANGED << nMsgs, nFrames, nSilent >>

\* handleSendMessage resumes after its 10 ms wait
SendAfterWait(maxPipes) ==
  /\ send.pc = "wait"
  /\ (send.capRec \/ isRecordingRef) /\ StartsRecording(send.capRec, FALSE)
       => Cardinality(InUse) < maxPipes
  /\ Set(SendRest(Cur, send.capRec, send.content),
         IF ~(send.capRec \/ isRecordingRef) THEN "send"
         ELSE IF StartsRecording(send.capRec, FALSE) THEN "sendStart"
         ELSE "sendStop",
         EmptyStr)
  /\ KeepInputs

(***************************************************************************)
(* Specifications.  Spec is the result path: word buffer, finalize timer,  *)
(* preview, commit, close, stop and send, with one pipeline at a time.     *)
(***************************************************************************)
Next ==
  \/ UserToggle(1)
  \/ \E p \in Pipes, ok \in BOOLEAN : GotUserMedia(p, ok)
  \/ \E p \in Pipes : Resumed(p)
  \/ \E p \in Pipes : WsOpen(p)
  \/ \E p \in Pipes : WsClosed(p)
  \/ \E isFinal \in BOOLEAN, isWord \in BOOLEAN, text \in Texts :
       WsMessage(isFinal, isWord, text)
  \/ UtteranceTimeout
  \/ Submit(MaxSends, FALSE)
  \/ SendAfterWait(1)

Spec == Init /\ [][Next]_vars

\* the step UtteranceTimeout takes, told apart by the two variables that
\* identify it: the timer is no longer armed and the event is "timeout"
TimerFires ==
  /\ timerArmed
  /\ timerArmed' = FALSE
  /\ lastEvent' = [name |-> "timeout", hadPending |-> Trim(currentUtterance) # EmptyStr,
                    attempts |-> reconnectAttempts]

\* SpecFair adds that an armed finalize timer does fire: setTimeout runs its
\* callback unless clearTimeout cancels it first
SpecFair == Spec /\ WF_<<timerArmed, lastEvent>>(TimerFires)

(***************************************************************************)
(* SpecConn is the connection path: start, stop, the socket opening and    *)
(* closing, and the audio callback reconnecting, with one pipeline at a    *)
(* time and a few frames.  SpecAudio is the same path with enough frames   *)
(* to fill the audio buffer.                                               *)
(***************************************************************************)
NextConn ==
  \/ UserToggle(1)
  \/ \E p \in Pipes, ok \in BOOLEAN : GotUserMedia(p, ok)
  \/ \E p \in Pipes : Resumed(p)
  \/ \E p \in Pipes : WsOpen(p)
  \/ \E p \in Pipes : WsClosed(p)
  \/ \E p \in Pipes, hasAudio \in BOOLEAN :
       AudioProcess(p, hasAudio, MaxFrames, MaxSilent)

SpecConn == Init /\ [][NextConn]_vars

NextAudio ==
  \/ UserToggle(1)
  \/ \E p \in Pipes, ok \in BOOLEAN : GotUserMedia(p, ok)
  \/ \E p \in Pipes : Resumed(p)
  \/ \E p \in Pipes : WsOpen(p)
  \/ \E p \in Pipes : WsClosed(p)
  \/ \E p \in Pipes, hasAudio \in BOOLEAN :
       AudioProcess(p, hasAudio, MaxFramesAudio, MaxSilentAudio)

SpecAudio == Init /\ [][NextAudio]_vars

(***************************************************************************)
(* SpecParse is the result path without the send, with inbound frames that *)
(* are not results.                                                        *)
(***************************************************************************)
NonResults == {"unparseable", "null", "error"}

\* a frame that is not a result arrives
WsNonResult(kind) ==
  /\ CanReceive
  /\ nMsgs < MaxMsgs
  /\ Set(OnNonResult(Cur, kind), "nonResult", EmptyStr)
  /\ nMsgs' = nMsgs + 1
  /\ UNCHANGED << nFrames, nSilent, nSends >>

NextParse ==
  \/ UserToggle(1)
  \/ \E p \in Pipes, ok \in BOOLEAN : GotUserMedia(p, ok)
  \/ \E p \in Pipes : Resumed(p)
  \/ \E p \in Pipes : WsOpen(p)
  \/ \E p \in Pipes : WsClosed(p)
  \/ \E isFinal \in BOOLEAN, isWord \in BOOLEAN, text \in Texts :
       WsMessage(isFinal, isWord, text)
  \/ \E kind \in NonResults : WsNonResult(kind)
  \/ UtteranceTimeout

SpecParse == Init /\ [][NextParse]_vars

(***************************************************************************)
(* SpecGate is the connection path with frames given by their samples, so  *)
(* that the activity test decides what the gate sees.                      *)
(***************************************************************************)
\* a frame whose first n samples have amplitude v and the others w
Frame(n, v, w) == [i \in 1..FrameLen |-> IF i <= n THEN v ELSE w]

SampleFrames ==
  { Frame(0, 0, 0),                  \* silence
    Frame(1, AmpDetect + 1, 0),      \* one sample above the detection level
    Frame(1, AmpDetect, 0),          \* one sample at it
    Frame(2, AmpDetect, 0),          \* two at it, mean too low
    Frame(FrameLen, AmpMean + 1, 0), \* quiet speech
    Frame(FrameLen, AmpMean, 0),     \* mean at the level, not above
    Frame(1, AmpMean * FrameLen, AmpNonZero),  \* loud sample among low ones
    Frame(FrameLen, AmpNonZero, 0) } \* nothing above the non-zero level

\* the processor of pipeline p delivers a frame with these samples
AudioFrame(p, samples) ==
  AudioProcess(p, HasAudio(samples), MaxFramesGate, MaxSilentGate)

NextGate ==
  \/ UserToggle(1)
  \/ \E p \in Pipes, ok \in BOOLEAN : GotUserMedia(p, ok)
  \/ \E p \in Pipes : Resumed(p)
  \/ \E p \in Pipes : WsOpen(p)
  \/ \E p \in Pipes : WsClosed(p)
  \/ \E p \in Pipes, samples \in SampleFrames : AudioFrame(p, samples)

SpecGate == Init /\ [][NextGate]_vars

(***************************************************************************)
(* SpecInput is the message input on its own: the user edits the text and  *)
(* appendValue is called through the imperative handle.                    *)
(***************************************************************************)
\* seven words "a" and three words "c"
TenWords == [i \in 1..19 |-> IF i % 2 = 0 THEN " " ELSE IF i <= 13 THEN "a" ELSE "c"]

\* texts the user leaves in the textarea
TypedTexts ==
  { EmptyStr,
    << "a", " ", "b" >>,
    << "b", " ", "a" >>,
    << "A", " ", "b" >>,
    << " ", "a", " ", "b", " " >>,
    << "a", ".", " ", "b" >>,
    << "a", ".", " ", "b", " ", "c" >>,
    << "a", "." >> }

\* texts appendValue is called with
AppendedTexts ==
  { EmptyStr,
    << " " >>,
    << "a", " ", "b" >>,
    << "b", " ", "a" >>,
    << "B" >>,
    << "a", " ", "c" >>,
    << "b", " ", "c" >>,
    << " ", "b", " ", "c", " ", "a" >>,
    << "a", " ", "a", " ", "a", " ", "c" >>,
    << "b", " ", "a", " ", "c" >>,
    TenWords }

\* textarea onChange
OnChange(S, newValue) ==
  [S EXCEPT !.interimText = EmptyStr, !.message = newValue]

\* the user edits the textarea
TypeText(m) ==
  /\ Set(OnChange(Cur, m), "type", EmptyStr)
  /\ KeepInputs

\* messageInputRef.current.appendValue(t)
AppendText(t) ==
  /\ Len(commits) < MaxAppends
  /\ Set(DoAppend(Cur, t), "append", EmptyStr)
  /\ KeepInputs

NextInput ==
  \/ \E m \in TypedTexts : TypeText(m)
  \/ \E t \in AppendedTexts : AppendText(t)

SpecInput == Init /\ [][NextInput]_vars

(***************************************************************************)
(* SpecReply is the send and its reply: the user types and submits, the    *)
(* reply and the speech request settle, the audio ends, the timeouts fire. *)
(* The form is never disabled, so a message can be submitted while the     *)
(* call for the message before it is still under way; at most two calls    *)
(* are under way at once.  A restart is taken once a pipeline slot is free.*)
(* SpecReplyFair adds that what the browser has pending does happen.       *)
(***************************************************************************)
ReplyTexts == { << "a" >> }

\* the restart of the call c has a slot to build its pipeline in
CanRestart(c) ==
  (wasRecordingBeforeReplyRef \/ Cur[c].capWas) => HasFreeSlot(Cur)

ReplyArrives(c, ok, playback) ==
  /\ Cur[c].pc = "inflight"
  /\ Set(OnReply(Cur, c, ok, playback), IF ok THEN "reply" ELSE "replyFailed", EmptyStr)
  /\ KeepInputs

TtsSettled(c, ok) ==
  /\ Cur[c].pc = "tts"
  /\ Set(OnTtsSettled(Cur, c, ok), IF ok THEN "tts" ELSE "ttsFailed", EmptyStr)
  /\ KeepInputs

AudioEnded(c) ==
  /\ Cur[c].pc = "playing"
  /\ CanRestart(c)
  /\ Set(OnRestartDue(Cur, c), "restart", EmptyStr)
  /\ KeepInputs

RestartTimer(c) ==
  /\ Cur[c].pc = "restartTimer"
  /\ CanRestart(c)
  /\ Set(OnRestartDue(Cur, c), "restart", EmptyStr)
  /\ KeepInputs

ErrorTimer(c) ==
  /\ Cur[c].pc = "errorTimer"
  /\ HasFreeSlot(Cur)
  /\ Set(OnErrorTimer(Cur, c), "restart", EmptyStr)
  /\ KeepInputs

NextReply ==
  \/ UserToggle(1)
  \/ \E p \in Pipes, ok \in BOOLEAN : GotUserMedia(p, ok)
  \/ \E p \in Pipes : Resumed(p)
  \/ \E p \in Pipes : WsOpen(p)
  \/ \E p \in Pipes : WsClosed(p)
  \/ \E m \in ReplyTexts : TypeText(m)
  \/ Submit(MaxSendsReply, TRUE)
  \/ \E c \in Calls, ok \in BOOLEAN, playback \in BOOLEAN : ReplyArrives(c, ok, playback)
  \/ \E c \in Calls, ok \in BOOLEAN : TtsSettled(c, ok)
  \/ \E c \in Calls : AudioEnded(c)
  \/ \E c \in Calls : RestartTimer(c)
  \/ \E c \in Calls : ErrorTimer(c)

SpecReply == Init /\ [][NextReply]_vars

SpecReplyFair ==
  /\ SpecReply
  /\ \A c \in Calls :
       /\ WF_vars(\E ok \in BOOLEAN, playback \in BOOLEAN : ReplyArrives(c, ok, playback))
       /\ WF_vars(\E ok \in BOOLEAN : TtsSettled(c, ok))
       /\ WF_vars(AudioEnded(c))
       /\ WF_vars(RestartTimer(c))
       /\ WF_vars(ErrorTimer(c))
  /\ WF_vars(\E p \in Pipes, ok \in BOOLEAN : GotUserMedia(p, ok))
  /\ WF_vars(\E p \in Pipes : Resumed(p))
  /\ WF_vars(\E p \in Pipes : WsClosed(p))

(***************************************************************************)
(* SpecStop is the stop button against everything still under way: two     *)
(* starts can be pending at once, a closing socket still delivers a word,  *)
(* a message is sent while its call waits, and the audio callback fires.   *)
(* A socket opens only while fewer than MaxIntervalsStop keepalive timers  *)
(* are armed.                                                              *)
(***************************************************************************)
WordArrives(maxWords) ==
  /\ nMsgs < maxWords
  /\ WsMessage(TRUE, TRUE, << "a" >>)

WsOpenCapped(p, maxIntervals) ==
  /\ intervals < maxIntervals
  /\ WsOpen(p)

NextStop ==
  \/ UserToggle(2)
  \/ \E p \in Pipes, ok \in BOOLEAN : GotUserMedia(p, ok)
  \/ \E p \in Pipes : Resumed(p)
  \/ \E p \in Pipes : WsOpenCapped(p, MaxIntervalsStop)
  \/ \E p \in Pipes : WsClosed(p)
  \/ WordArrives(MaxWordsStop)
  \/ \E m \in ReplyTexts : TypeText(m)
  \/ Submit(MaxSends, FALSE)
  \/ SendAfterWait(2)
  \/ \E p \in Pipes : AudioProcess(p, TRUE, MaxFramesStop, 0)

SpecStop == Init /\ [][NextStop]_vars

(***************************************************************************)
(* SpecDsp is the conversion of a frame on its own: any frame of DspLen    *)
(* samples at any of the sample rates is resampled and quantized.  The     *)
(* rate is that of the AudioContext, which the browser chooses.  A         *)
(* conversion does not depend on the frames before it, so a behaviour      *)
(* converts one frame.                                                     *)
(***************************************************************************)
\* 8, 16, 24, 44.1 and 48 kHz
SampleRates == {80, 160, 240, 441, 480}

\* -1.0, 0.05, 0.2 and 0.9
DspSamples == {-10000, 500, 2000, 9000}

DspFrames == [1..DspLen -> DspSamples]

ConvertFrame(rate, samples) ==
  /\ dsp = NoDsp
  /\ Set([Cur EXCEPT !.dsp = Convert(rate, samples)], "convert", EmptyStr)
  /\ KeepInputs

NextDsp ==
  /\ dsp = NoDsp
  /\ \E rate \in SampleRates, samples \in DspFrames : ConvertFrame(rate, samples)

SpecDsp == Init /\ [][NextDsp]_vars

(***************************************************************************)
(* SpecServer is the server side on its own: sessions are created, their   *)
(* adapters start, stream, stop and fail, and the SessionManager reacts.   *)
(***************************************************************************)
SetSession(s, r, ev) ==
  /\ Set([Cur EXCEPT !.sessions[s] = r], ev, EmptyStr)
  /\ KeepInputs

TransportConnect(s, secondary) ==
  /\ sessions[s].state = "none"
  /\ SetSession(s, CreateSession(sessions[s], secondary), "connect")

AdapterStarted(s) ==
  /\ sessions[s].state = "active" /\ sessions[s].adapter = "Starting"
  /\ SetSession(s, [sessions[s] EXCEPT !.adapter = "Streaming"], "started")

StopRequested(s) ==
  /\ sessions[s].state = "active" /\ sessions[s].adapter \in {"Starting", "Streaming"}
  /\ SetSession(s, [sessions[s] EXCEPT !.adapter = "Stopping"], "stopping")

AdapterStopped(s) ==
  /\ sessions[s].state = "active" /\ sessions[s].adapter = "Stopping"
  /\ SetSession(s, TearDown(sessions[s]), "stopped")

ProviderFails(s) ==
  /\ sessions[s].state = "active" /\ sessions[s].adapter \in NonTerminal
  /\ SetSession(s, [sessions[s] EXCEPT !.adapter = "Errored"], "providerError")

AdapterErrored(s) ==
  /\ sessions[s].state = "active" /\ sessions[s].adapter = "Errored"
  /\ SetSession(s, OnAdapterErrored(sessions[s]),
                IF MayFallBack(sessions[s]) THEN "fallback" ELSE "sessionFailed")

TransportClose(s) ==
  /\ sessions[s].state = "active"
  /\ SetSession(s, TearDown(sessions[s]), "transportClose")

NextServer ==
  \E s \in Sessions :
    \/ \E secondary \in BOOLEAN : TransportConnect(s, secondary)
    \/ AdapterStarted(s)
    \/ StopRequested(s)
    \/ AdapterStopped(s)
    \/ ProviderFails(s)
    \/ AdapterErrored(s)
    \/ TransportClose(s)

SpecServer == Init /\ [][NextServer]_vars

(***************************************************************************)
(* Claims about the result path, checked under Spec.                       *)
(***************************************************************************)
RECURSIVE JoinWords(_)
\* the words joined by single spaces
JoinWords(ws) ==
  IF ws = << >> THEN EmptyStr
  ELSE IF Len(ws) = 1 THEN ws[1]
  ELSE ws[1] \o << " " >> \o JoinWords(Tail(ws))

LastCommit == commits[Len(commits)]

\* C1 as stated: for word-level finals with non-empty text that arrive with
\* no timer expiry, stop, close, send or phrase final between them, no word
\* commits anything, and the timer expiring after the last word commits
\* exactly once, the words joined by single spaces in arrival order.
C1_AsStated ==
  [][ /\ lastEvent'.name = "word" => commits' = commits
      /\ lastEvent'.name = "timeout" /\ wordsSince # << >>
           => commits' = Append(commits, JoinWords(wordsSince)) ]_vars

\* C1 amended: the commit's argument is the joined words with leading and
\* trailing whitespace trimmed, and when the joined words are blank the
\* timer expiry commits nothing.
C1_WordsCommittedOnceTrimmed ==
  [][ /\ lastEvent'.name = "word" => commits' = commits /\ timerArmed'
      /\ lastEvent'.name = "timeout" /\ wordsSince # << >>
           => IF Trim(JoinWords(wordsSince)) # EmptyStr
                THEN /\ commits' = Append(commits, Trim(JoinWords(wordsSince)))
                     /\ Trim(currentUtterance') = EmptyStr
                ELSE commits' = commits ]_vars

\* the timer has just committed an utterance of several words
C1_Witness ==
  /\ lastEvent.name = "timeout"
  /\ lastEvent.hadPending
  /\ commits # << >>
  /\ \E i \in 2..(Len(LastCommit) - 1) : LastCommit[i] = " "

\* C2: an interim result with non-blank text replaces the preview and
\* leaves the committed message, the word buffer and the commits alone; a
\* phrase-level final with text is committed exactly once, as received, and
\* clears the preview.
C2_InterimOnlyPreview ==
  [][ \A t \in Texts, w \in BOOLEAN :
        /\ lastEvent'.name = "interim" /\ Trim(t) # EmptyStr
           /\ WsMessage(FALSE, w, t)
             => /\ interimText' = t
                /\ message' = message
                /\ currentUtterance' = currentUtterance
                /\ commits' = commits
        /\ lastEvent'.name = "phrase" /\ WsMessage(TRUE, FALSE, t)
             => /\ commits' = Append(commits, t)
                /\ interimText' = EmptyStr ]_vars

\* an interim has just replaced the preview next to committed text
C2_Witness ==
  /\ lastEvent.name = "interim"
  /\ interimText # EmptyStr
  /\ commits # << >>
  /\ message # EmptyStr

\* C3: when a socket closes while the word buffer holds non-blank text, the
\* close handler commits that text, trimmed, exactly once, disarms the
\* finalize timer and empties the buffer.
C3_CloseCommitsPending ==
  [][ lastEvent'.name = "close" /\ Trim(currentUtterance) # EmptyStr
        => /\ commits' = Append(commits, Trim(currentUtterance))
           /\ ~timerArmed'
           /\ ~utteranceTimeoutRef'
           /\ currentUtterance' = EmptyStr ]_vars

\* a close has just committed buffered text
C3_Witness ==
  /\ lastEvent.name = "close"
  /\ lastEvent.hadPending
  /\ commits # << >>
  /\ currentUtterance = EmptyStr

\* C4 as stated: a submit with a non-blank word buffer leaves the buffer
\* empty and the timer disarmed, and the buffered text is part of the
\* message being sent or of the input's committed text.
C4_AsStated ==
  [][ lastEvent'.name = "submit" /\ Trim(currentUtterance) # EmptyStr
        => /\ currentUtterance' = EmptyStr
           /\ ~timerArmed'
           /\ \/ Includes(send'.content, Trim(currentUtterance))
              \/ Includes(message', Trim(currentUtterance)) ]_vars

\* C5: when toggleRecording stops the recording (a click, or the stop on
\* send) while the word buffer holds non-blank text, it commits that text
\* exactly once, and afterwards the buffer is empty and no timer is armed.
C5_StopCommitsPending ==
  [][ lastEvent'.name \in {"stop", "sendStop"} /\ Trim(currentUtterance) # EmptyStr
        => /\ commits' = Append(commits, Trim(currentUtterance))
           /\ currentUtterance' = EmptyStr
           /\ ~timerArmed'
           /\ ~isRecording' ]_vars

\* a stop has just committed buffered text
C5_Witness ==
  /\ lastEvent.name = "stop"
  /\ lastEvent.hadPending
  /\ commits # << >>
  /\ currentUtterance = EmptyStr
  /\ ~isRecording

(***************************************************************************)
(* Claims about the connection path, checked under SpecConn and SpecAudio. *)
(***************************************************************************)
Sockets == [p \in Pipes |-> pipe[p].ws]

\* the frames queued in the audio buffer of pipeline p
Queued(p) == { pipe[p].buf[i] : i \in DOMAIN pipe[p].buf }

\* C6: the reconnect counter stays between 0 and maxReconnectAttempts, it
\* grows only by a reconnect attempt and then by exactly one, and every
\* socket that opens, the initial one or a reconnected one, leaves it at 0.
C6_CounterBoundedAndReset ==
  [][ /\ reconnectAttempts \in 0..maxReconnectAttempts
      /\ reconnectAttempts' \in 0..maxReconnectAttempts
      /\ lastEvent'.name = "audioReconnect"
           => reconnectAttempts' = reconnectAttempts + 1
      /\ reconnectAttempts' > reconnectAttempts
           => /\ lastEvent'.name = "audioReconnect"
              /\ reconnectAttempts' = reconnectAttempts + 1
      /\ lastEvent'.name \in {"open", "openUnheard"}
           => reconnectAttempts' = 0 ]_vars

\* a reconnected socket has just opened and reset a counter that was not 0
C6_Witness ==
  /\ lastEvent.name = "open"
  /\ lastEvent.attempts > 0
  /\ reconnectAttempts = 0

\* C7: a step creates a socket only when a recording starts or when the
\* audio callback reconnects with the counter below maxReconnectAttempts;
\* with the counter at maxReconnectAttempts a frame creates no socket and
\* leaves the counter alone, and the counter leaves that value only by a
\* socket opening or a fresh start.
C7_NoFourthAttempt ==
  [][ /\ \A p \in Pipes :
            pipe'[p].ws = "CONNECTING" /\ pipe[p].ws # "CONNECTING"
              => \/ lastEvent'.name = "media"
                 \/ /\ lastEvent'.name = "audioReconnect"
                    /\ reconnectAttempts < maxReconnectAttempts
      /\ lastEvent'.name = "audioGiveUp"
           => /\ reconnectAttempts = maxReconnectAttempts
              /\ reconnectAttempts' = maxReconnectAttempts
              /\ Sockets' = Sockets
              /\ wsRef' = wsRef
      /\ reconnectAttempts = maxReconnectAttempts
         /\ reconnectAttempts' # maxReconnectAttempts
           => lastEvent'.name \in {"open", "start", "sendStart"} ]_vars

\* after three failed attempts, a second frame in a row has found the socket
\* closed and has created none
C7_Witness ==
  /\ lastEvent.name = "audioGiveUp"
  /\ lastEvent.attempts = maxReconnectAttempts
  /\ reconnectAttempts = maxReconnectAttempts
  /\ nFrames >= maxReconnectAttempts + 2
  /\ \A p \in Pipes : pipe[p].ws \in {"NONE", "CLOSED"}

\* C8 as stated: the frame that finds the reconnect ceiling exceeded leaves
\* the recording state false.
C8_AsStated ==
  [][ lastEvent'.name = "audioGiveUp" => ~isRecording' /\ ~isRecordingRef' ]_vars

\* C9 as stated: a frame with audio activity captured while the socket of
\* its pipeline is CONNECTING is queued in the pipeline's audio buffer.
C9_AsStated ==
  [][ lastEvent'.name = "audioConnecting" /\ nSilent' = nSilent
        => \E p \in Pipes : nFrames' \in Queued(p)' ]_vars

NotReadyBranches == {"audioConnecting", "audioReconnect", "audioGiveUp",
                     "audioBuffered"}

\* C11: no audio buffer ever holds more than MAX_BUFFER_SIZE frames, and a
\* callback that finds the transport not ready returns in the same step
\* having sent nothing, with its frame either queued behind the frames
\* already there or dropped.
C11_BufferBounded ==
  [][ \A p \in Pipes :
        /\ Len(pipe[p].buf) <= MAX_BUFFER_SIZE
        /\ Len(pipe'[p].buf) <= MAX_BUFFER_SIZE
        /\ lastEvent'.name \in NotReadyBranches /\ pipe[p].pc = "live"
             => /\ lastBatch' = << >>
                /\ pipe'[p].pc = "live"
                /\ \/ pipe'[p].buf = pipe[p].buf
                   \/ pipe'[p].buf = Append(pipe[p].buf, nFrames') ]_vars

\* the frame just queued has filled the buffer
C11_Witness ==
  /\ lastEvent.name = "audioBuffered"
  /\ \E p \in Pipes :
        /\ Len(pipe[p].buf) = MAX_BUFFER_SIZE
        /\ pipe[p].buf[MAX_BUFFER_SIZE] = nFrames

\* C12: whichever of timer expiry, phrase final, stop, close and send runs,
\* a step commits at most one text; a step that commits leaves the word
\* buffer empty, and unless it is a phrase final what it commits is the
\* non-blank buffer it found, so no later event finds that text to commit.
C12_CommittedAtMostOnce ==
  [][ commits' # commits
        => /\ Len(commits') = Len(commits) + 1
           /\ SubSeq(commits', 1, Len(commits)) = commits
           /\ currentUtterance' = EmptyStr
           /\ lastEvent'.name # "phrase"
                => /\ Trim(currentUtterance) # EmptyStr
                   /\ LastCommit' = Trim(currentUtterance) ]_vars

\* a close has committed a second accumulation after an earlier commit, and
\* nothing is left to commit
C12_Witness ==
  /\ lastEvent.name = "close"
  /\ lastEvent.hadPending
  /\ Len(commits) >= 2
  /\ currentUtterance = EmptyStr
  /\ ~timerArmed

(***************************************************************************)
(* Claims about appendValue, checked under SpecInput.                      *)
(***************************************************************************)
\* C13: appending the text just appended once more leaves the message as
\* it is, and appending a text that, trimmed and lower-cased, occurs in the
\* lower-cased message leaves the message unchanged.
C13_AppendIdempotent ==
  [][ lastEvent'.name = "append"
        => /\ appendValue(message', LastCommit') = message'
           /\ ( /\ Trim(LastCommit') # EmptyStr
                /\ Includes(ToLowerCase(message), ToLowerCase(Trim(LastCommit'))) )
                => message' = message ]_vars

\* the same text has been appended twice and occurs in the message once
C13_Witness ==
  /\ lastEvent.name = "append"
  /\ Len(commits) = 2
  /\ commits[1] = commits[2]
  /\ Len(Trim(LastCommit)) > 1
  /\ Len(message) > Len(Trim(LastCommit))
  /\ Includes(message, Trim(LastCommit))
  /\ LastIndexOf(message, Trim(LastCommit)) + Len(Trim(LastCommit)) = Len(message)

\* the words of a text: trimmed, lower-cased, split at single spaces
WordsOf(s) == Split(ToLowerCase(Trim(s)), " ")

\* how many words of t occur among the words of m
SharedWords(t, m) ==
  Cardinality({i \in DOMAIN WordsOf(t) :
                 \E j \in DOMAIN WordsOf(m) : WordsOf(m)[j] = WordsOf(t)[i]})

\* C14: for a non-blank message and a non-blank text, when more than 70% of
\* the text's words occur among the message's words the append leaves the
\* message unchanged; at 70% or less, a text not contained in the message
\* is appended: the message changes and ends up containing the text.
C14_OverlapSuppresses ==
  [][ /\ lastEvent'.name = "append"
      /\ Trim(message) # EmptyStr
      /\ Trim(LastCommit') # EmptyStr
      => LET t == LastCommit'
             shared == SharedWords(t, message)
             total  == Len(WordsOf(t))
         IN /\ 10 * shared > 7 * total => message' = message
            /\ ( /\ 10 * shared <= 7 * total
                 /\ ~Includes(ToLowerCase(Trim(message)), ToLowerCase(Trim(t))) )
                 => /\ message' # message
                    /\ Includes(message', Trim(t)) ]_vars

\* a text sharing three words of four was suppressed, and then a text
\* sharing seven words of ten was appended
C14_Witness ==
  /\ lastEvent.name = "append"
  /\ commits = << << "a", " ", "a", " ", "a", " ", "c" >>, TenWords >>
  /\ message = << "b", " ", "a", " " >> \o TenWords

\* the append reaches the continuation test: message and text are not
\* blank, the text is not contained in the message, and at most 70% of its
\* words occur among the message's words
ReachesContinuation(m, t) ==
  /\ Trim(m) # EmptyStr
  /\ Trim(t) # EmptyStr
  /\ ~Includes(ToLowerCase(Trim(m)), ToLowerCase(Trim(t)))
  /\ 10 * SharedWords(t, m) <= 7 * Len(WordsOf(t))

LastSentenceOf(m) ==
  LET k == CHOOSE k \in 0..Len(m) :
             /\ k = 0 \/ m[k] \in {".", "!", "?"}
             /\ \A i \in (k+1)..Len(m) : m[i] \notin {".", "!", "?"}
  IN Trim(SubSeq(m, k + 1, Len(m)))

C16_GapSeparatesCommits ==
  [][ /\ lastEvent'.name = "timeout" /\ Trim(currentUtterance) # EmptyStr
           => /\ Len(commits') = Len(commits) + 1
              /\ LastCommit' = Trim(JoinWords(wordsSince))
              /\ currentUtterance' = EmptyStr
      /\ lastEvent.name = "timeout" /\ lastEvent.hadPending
         /\ lastEvent'.name = "word"
           => /\ commits' = commits
              /\ Len(wordsSince') = 1
              /\ currentUtterance' = wordsSince'[1] ]_vars

\* two word-level finals have been committed one by one, the second by the
\* timer
C16_Witness ==
  /\ lastEvent.name = "timeout"
  /\ lastEvent.hadPending
  /\ nMsgs = 2
  /\ commits = << << "b" >>, << "b" >> >>
  /\ currentUtterance = EmptyStr

(***************************************************************************)
(* Claims about the activity gate.                                         *)
(***************************************************************************)
\* C17 as stated: the first frame captured while recording is sent, or
\* queued for sending, whatever its activity.
C17_AsStated ==
  [][ /\ nFrames = 0 /\ nFrames' = 1
      /\ isRecording /\ ~userStoppedRecording
      => \/ lastBatch' = << 1 >>
         \/ \E p \in Pipes : 1 \in Queued(p)' ]_vars

\* the callbacks that get as far as the gate
GateBranches == {"audioGated", "audioBuffered", "audioSent"}

\* the frame is active: its peak is above 0.003, or more than a tenth of
\* its samples are above 0.001 and its mean is above 0.0015
IsActive(s) ==
  \/ \E i \in DOMAIN s : s[i] > AmpDetect
  \/ /\ 10 * Cardinality({i \in DOMAIN s : s[i] > AmpNonZero}) > Len(s)
     /\ SumOf(s) > AmpMean * Len(s)

\* C18: a frame counts as active exactly when IsActive holds of it; an
\* active frame that reaches the gate is sent or queued; an inactive frame
\* that reaches the gate is skipped exactly when it is not the first one
\* and the recent-activity counter, after this frame's decrement, is zero.
C18_GateFollowsActivity ==
  [][ \A p \in Pipes, s \in SampleFrames :
        AudioFrame(p, s)
        => /\ IsActive(s) <=> nSilent' = nSilent
           /\ lastEvent'.name \in GateBranches /\ IsActive(s)
                => /\ lastEvent'.name # "audioGated"
                   /\ \/ nFrames' \in Queued(p)'
                      \/ lastBatch' # << >> /\ lastBatch'[Len(lastBatch')] = nFrames'
           /\ lastEvent'.name \in GateBranches /\ ~IsActive(s)
                => ( lastEvent'.name = "audioGated"
                       <=> ~pipe[p].first /\ pipe'[p].recent = 0 ) ]_vars

\* an inactive frame has been skipped after the counter ran down, and
\* earlier inactive frames were let through
C18_Witness ==
  /\ lastEvent.name = "audioGated"
  /\ nSilent = MaxSilentGate
  /\ \E p \in Pipes :
        /\ pipe[p].pc = "live"
        /\ ~pipe[p].first
        /\ pipe[p].recent = 0

\* C19: an unparseable inbound frame leaves the word buffer, the finalize
\* timer, the preview, the committed text and the connection and recording
\* state as they are, and the result frame after it is handled as usual: a
\* word joins the buffer and arms the timer, a phrase final is committed.
C19_BadFrameDropped ==
  [][ /\ lastEvent'.name = "nonResult"
           => UNCHANGED << currentUtterance, utteranceTimeoutRef, timerArmed,
                           interimText, message, commits, pipe, wsRef, orphans,
                           isRecording, isRecordingRef, userStoppedRecording,
                           reconnectAttempts, keepAliveIntervalRef, intervals,
                           audioContext, isLoading >>
      /\ lastEvent.name = "nonResult" /\ lastEvent'.name = "word"
           => /\ Len(currentUtterance') > Len(currentUtterance)
              /\ EndsWith(currentUtterance', wordsSince'[Len(wordsSince')])
              /\ StartsWith(currentUtterance', currentUtterance)
              /\ timerArmed'
      /\ lastEvent.name = "nonResult" /\ lastEvent'.name = "phrase"
           => Len(commits') = Len(commits) + 1 ]_vars

\* a frame that is not a result has arrived while words were pending
C19_Witness ==
  /\ lastEvent.name = "nonResult"
  /\ lastEvent.hadPending
  /\ timerArmed
  /\ Trim(currentUtterance) # EmptyStr
  /\ interimText = currentUtterance

(***************************************************************************)
(* Claims about the send and its reply, checked under SpecReplyFair.       *)
(***************************************************************************)
\* a message was sent while recording and the reply to it is awaited
SentWhileRecording == \E c \in Calls : Cur[c].pc = "inflight" /\ Cur[c].wasRecording

\* the restart after a reply has just switched recording on
RestartedAfterReply == lastEvent.name = "restart" /\ isRecording

\* the step is the restart of the call c falling due
RestartOf(c) ==
  /\ lastEvent'.name = "restart"
  /\ Cur[c].pc \in {"playing", "restartTimer", "errorTimer"}
  /\ (IF c = "send" THEN send' ELSE earlier').pc = "idle"

\* a submit while recording switches recording off and notes it was on
StopOnSend ==
  (lastEvent'.name = "submit" /\ isRecording)
    => (~isRecording' /\ ~isRecordingRef' /\ send'.wasRecording)

\* a message sent while recording was off has no recording started for it
NotStartedIfNotRecording ==
  /\ (lastEvent'.name = "submit" /\ ~isRecording)
       => (~isRecording' /\ ~send'.wasRecording /\ pipe' = pipe)
  /\ \A c \in Calls :
       (RestartOf(c) /\ ~Cur[c].wasRecording)
         => (isRecording' = isRecording /\ pipe' = pipe)

\* C20: a submit while recording switches recording off; whenever a message
\* was sent while recording, recording is eventually switched on again by a
\* restart, whether the reply or the speech request fails or not and whether
\* playback is enabled or not; and for a message sent while recording was
\* off neither the submit nor the restart after its reply starts recording.
C20_AsStated ==
  /\ [][StopOnSend /\ NotStartedIfNotRecording]_vars
  /\ (SentWhileRecording ~> RestartedAfterReply)

(***************************************************************************)
(* Claims about the conversion of a frame, checked under SpecDsp.          *)
(***************************************************************************)
\* a frame has been converted
Converted == dsp.rate # 0

\* where output sample i (from 1) is read in the input when the source
\* index is num / den: its floor, its ceiling and its fractional part * den
ReadAt(num, den) ==
  [floor |-> num \div den, frac |-> num % den,
   ceil |-> IF num % den = 0 THEN num \div den ELSE (num \div den) + 1]

\* source[floor] * (1 - f) + source[ceil] * f for the index num / den, or
\* the last source sample when the ceiling is past the end; times den
Blend(input, num, den) ==
  LET at == ReadAt(num, den)
  IN IF at.ceil >= Len(input) THEN input[Len(input)] * den
     ELSE input[at.floor + 1] * (den - at.frac) + input[at.ceil + 1] * at.frac

\* C21: at the target rate the resampled frame has the length of the input
\* and each of its samples equals the input sample at the same index.
C21_PassthroughAtTargetRate ==
  (Converted /\ dsp.rate = targetSampleRate)
    => /\ Len(dsp.resampled.nums) = Len(dsp.input)
       /\ \A i \in 1..Len(dsp.input) :
            dsp.resampled.nums[i] = dsp.input[i] * dsp.resampled.den

\* a frame whose samples differ was converted at the target rate
C21_Witness ==
  /\ Converted /\ dsp.rate = targetSampleRate
  /\ Len(dsp.input) = DspLen
  /\ dsp.input[1] # dsp.input[2]

\* C22 as stated: at another rate output sample i is the blend read at
\* idx = i * (targetRate / sourceRate).
C22_AsStated ==
  (Converted /\ dsp.rate # targetSampleRate)
    => \A i \in 1..Len(dsp.resampled.nums) :
         dsp.resampled.nums[i] * dsp.rate
           = Blend(dsp.input, (i - 1) * targetSampleRate, dsp.rate) * dsp.resampled.den

\* C22: at another rate output sample i is the blend read at
\* idx = i * (sourceRate / targetRate): source[floor(idx)] * (1 - f) +
\* source[ceil(idx)] * f with f the fractional part of idx, and the last
\* source sample when ceil(idx) is past the end of the input.
C22_InterpolatedAtSourceIndex ==
  (Converted /\ dsp.rate # targetSampleRate)
    => \A i \in 1..Len(dsp.resampled.nums) :
         dsp.resampled.nums[i] * targetSampleRate
           = Blend(dsp.input, (i - 1) * dsp.rate, targetSampleRate) * dsp.resampled.den

\* a frame was resampled with one output sample blended from two different
\* input samples and another taken from past the end
C22_Witness ==
  /\ Converted /\ dsp.rate # targetSampleRate
  /\ \E i \in 1..Len(dsp.resampled.nums) :
       LET at == ReadAt((i - 1) * dsp.rate, targetSampleRate)
       IN /\ at.frac # 0 /\ at.ceil < Len(dsp.input)
          /\ dsp.input[at.floor + 1] # dsp.input[at.ceil + 1]
  /\ \E i \in 1..Len(dsp.resampled.nums) :
       ReadAt((i - 1) * dsp.rate, targetSampleRate).ceil >= Len(dsp.input)

\* resampled sample i times the gain is at or beyond 1.0 (sign 1) or -1.0
\* (sign -1)
Saturates(i, sign) ==
  sign * dsp.resampled.nums[i] * dsp.gain >= dsp.resampled.den * 10 * One

FallbackOnce(s) ==
  LET r == sessions[s]
      q == sessions'[s]
      reacts == lastEvent'.name \in {"fallback", "sessionFailed"} /\ q # r
  IN /\ (reacts /\ r.secondary /\ r.fallbacks = 0)
          => (q.state = "active" /\ q.provider = "secondary" /\ q.fallbacks = 1)
     /\ (reacts /\ ~(r.secondary /\ r.fallbacks = 0))
          => (q.state = "failed" /\ q.fallbacks = r.fallbacks)
     /\ ~reacts => (q.fallbacks = r.fallbacks /\ q.provider = r.provider)
     /\ (r.state = "failed") => (q = r)
     /\ q.fallbacks <= 1

\* C24: when the adapter of a session is Errored, the SessionManager falls
\* back to the configured secondary provider if it has not done so for the
\* session before, and otherwise declares the session failed; no other
\* step changes the provider or counts a
\* fallback, a failed session stays failed, and a session never sees more
\* than one fallback.
C24_OneFallbackThenFailed == [][\A s \in Sessions : FallbackOnce(s)]_vars

\* a session has failed after its one fallback
C24_Witness ==
  \E s \in Sessions :
    /\ sessions[s].state = "failed" /\ sessions[s].fallbacks = 1
    /\ sessions[s].provider = "secondary"
    /\ lastEvent.name = "sessionFailed"

(***************************************************************************)
(* Claims about what becomes of buffered words, checked under Spec.        *)
(***************************************************************************)
\* C25 as stated: in every step that finds non-blank text in the word
\* buffer, that text is still in the buffer afterwards or is part of the
\* text the step passes to a commit, a phrase-level final included.
C25_AsStated ==
  [][ Trim(currentUtterance) # EmptyStr
        => \/ StartsWith(currentUtterance', currentUtterance)
           \/ /\ Len(commits') > Len(commits)
              /\ Includes(LastCommit', Trim(currentUtterance)) ]_vars

\* C26: whenever the word buffer holds non-blank text a finalize timer is
\* pending, and a pending finalize timer is always the one
\* utteranceTimeoutRef names, so the next word clears it before it arms its
\* own: no second timer is ever pending and no earlier timer fires after a
\* later word.
C26_OneTimerWhileBuffered ==
  /\ Trim(currentUtterance) # EmptyStr => timerArmed
  /\ timerArmed => utteranceTimeoutRef

\* a second word has re-armed the timer of a buffer of several words
C26_Witness ==
  /\ lastEvent.name = "word" /\ lastEvent.hadPending
  /\ timerArmed
  /\ Len(wordsSince) >= 2

AudioStep == nFrames' = nFrames + 1

\* pipeline p gets a new socket in the step
NewSocket(p) ==
  /\ pipe'[p].ws = "CONNECTING"
  /\ pipe[p].ws # "CONNECTING"

\* an audio callback that makes a socket or counts an attempt does both, for
\* one pipeline, whose socket was CLOSED or CLOSING
ReconnectOnlyWhenClosed ==
  AudioStep /\ ((\E p \in Pipes : NewSocket(p)) \/ reconnectAttempts' # reconnectAttempts)
    => /\ lastEvent'.name = "audioReconnect"
       /\ reconnectAttempts' = reconnectAttempts + 1
       /\ \E p \in Pipes :
            /\ pipe[p].ws \in {"CLOSED", "CLOSING"}
            /\ pipe'[p].ws = "CONNECTING"
            /\ \A q \in Pipes \ {p} : pipe'[q].ws = pipe[q].ws

\* an audio callback whose socket is CONNECTING leaves every socket, the
\* socket reference and the attempt counter as they are
NothingWhileConnecting ==
  AudioStep /\ lastEvent'.name = "audioConnecting"
    => /\ \E p \in Pipes : pipe[p].pc = "live" /\ pipe[p].ws = "CONNECTING"
       /\ \A p \in Pipes : pipe'[p].ws = pipe[p].ws
       /\ wsRef' = wsRef
       /\ reconnectAttempts' = reconnectAttempts

\* C28: an audio callback starts a reconnect only when its socket is CLOSED
\* or CLOSING; while the socket is CONNECTING a callback creates no socket
\* and does not count an attempt.
C28_ReconnectOnlyWhenClosed ==
  [][ReconnectOnlyWhenClosed /\ NothingWhileConnecting]_vars

\* two frames in a row found the reconnected socket still connecting, and
\* the counter still shows the one attempt
C28_Witness ==
  /\ lastEvent.name = "audioConnecting"
  /\ lastEvent.attempts = 1
  /\ reconnectAttempts = 1
  /\ nFrames >= 3
  /\ \E p \in Pipes : pipe[p].pc = "live" /\ pipe[p].ws = "CONNECTING"

(***************************************************************************)
(* Claims about the sockets and pipelines in existence, checked under      *)
(* SpecReply and SpecConn.                                                 *)
(***************************************************************************)
\* the pipelines whose socket is CONNECTING or OPEN
LiveSockets == {p \in Pipes : pipe[p].ws \in {"CONNECTING", "OPEN"}}

\* C29: at any time at most one socket of the component is CONNECTING or
\* OPEN, whatever the order of start, stop, reconnect and forced restart.
C29_AsStated == Cardinality(LiveSockets) <= 1

\* C30: whenever the recording flag is false no socket is CONNECTING or
\* OPEN and no capture pipeline is running, also when the stop came while
\* the start was still waiting for the microphone.
C30_AsStated ==
  ~isRecording =>
    /\ LiveSockets = {}
    /\ \A p \in Pipes : pipe[p].pc # "live"

(***************************************************************************)
(* Claims about the audio callback after a stop by the user, checked under *)
(* SpecStop.                                                               *)
(***************************************************************************)
\* an audio callback that runs after the user stopped the recording, and
\* before any recording is started again, sends nothing and reconnects
\* nothing
SilentAfterUserStop ==
  AudioStep /\ stoppedByUser
    => /\ lastBatch' = << >>
       /\ \A p \in Pipes : pipe'[p].ws = pipe[p].ws
       /\ reconnectAttempts' = reconnectAttempts

\* C31: after the user stops the recording no audio frame is sent and no
\* reconnect is attempted until a recording is started again, whatever the
\* state of the socket and however many callbacks fire.
C31_AsStated == [][SilentAfterUserStop]_vars

(***************************************************************************)
(* Claims about the keepalive timer, checked under SpecConn.               *)
(***************************************************************************)
\* C32: at most one keepalive interval timer is armed at any time, and once
\* the recording has been stopped none is armed, also when the socket was
\* reconnected before the stop.
C32_AsStated ==
  /\ intervals <= 1
  /\ (lastEvent.name = "stop" => intervals = 0)

(***************************************************************************)
(* Claims about a start that fails, checked under SpecConn.                *)
(***************************************************************************)
\* C33: when getUserMedia is refused the recording flag is false afterwards
\* and the failed start leaves no socket and no keepalive timer behind.
C33_AsStated ==
  lastEvent.name = "mediaRefused"
    => /\ ~isRecording
       /\ ~isRecordingRef
       /\ wsRef = 0
       /\ LiveSockets = {}
       /\ intervals = 0

(***************************************************************************)
(* Claims about the recent-activity counter, checked under SpecGate.       *)
(***************************************************************************)
\* the callback of pipeline p gets as far as the activity tracker
TrackerStep(p) ==
  /\ AudioStep
  /\ pipe[p].pc = "live"
  /\ lastEvent'.name \in GateBranches

\* what the tracker and the gate do with the frame of the step: an active
\* frame sets the counter to the threshold and is forwarded; an inactive
\* frame is forwarded while the counter is above 1, and counts it down; an
\* inactive frame that finds the counter at 1 or 0 is dropped, unless it is
\* the first frame
CounterStep(p) ==
  /\ nSilent' = nSilent
       => /\ pipe'[p].recent = RECENT_AUDIO_THRESHOLD
          /\ lastEvent'.name # "audioGated"
          /\ ~pipe'[p].first
  /\ nSilent' # nSilent /\ pipe[p].recent > 1
       => /\ pipe'[p].recent = pipe[p].recent - 1
          /\ lastEvent'.name # "audioGated"
  /\ nSilent' # nSilent /\ pipe[p].recent <= 1 /\ ~pipe[p].first
       => /\ pipe'[p].recent = 0
          /\ lastEvent'.name = "audioGated"
          /\ lastBatch' = << >>
          /\ pipe'[p].buf = pipe[p].buf

\* the counter of a running pipeline changes in no other step, and stays
\* within 0..RECENT_AUDIO_THRESHOLD
CounterKept(p) ==
  /\ pipe'[p].recent \in 0..RECENT_AUDIO_THRESHOLD
  /\ pipe[p].pc = "live" /\ pipe'[p].pc = "live" /\ ~TrackerStep(p)
       => pipe'[p].recent = pipe[p].recent

CounterSteps == \A p \in Pipes : (TrackerStep(p) => CounterStep(p)) /\ CounterKept(p)

\* C34: of the frames that reach the activity tracker, after an active one
\* exactly RECENT_AUDIO_THRESHOLD - 1 inactive frames in a row are
\* forwarded and every further inactive frame in that row is dropped; the
\* recent-activity counter stays within 0..RECENT_AUDIO_THRESHOLD.
C34_TrailThenGated == [][CounterSteps]_vars

\* an active frame, then an inactive one let through, then an inactive one
\* dropped
C34_Witness ==
  /\ lastEvent.name = "audioGated"
  /\ nFrames = 3
  /\ nSilent = 2
  /\ \E p \in Pipes :
        /\ pipe[p].pc = "live"
        /\ pipe[p].ws = "OPEN"
        /\ pipe[p].ready
        /\ pipe[p].recent = 0

(***************************************************************************)
(* Claims about the loading indicator, checked under SpecReply.            *)
(***************************************************************************)
\* the calls of handleSendMessage awaiting apiService.sendMessage
InFlight == {c \in Calls : Cur[c].pc = "inflight"}

\* the calls still inside the try block: awaiting the reply or the speech
Outstanding == {c \in Calls : Cur[c].pc \in {"inflight", "tts"}}

\* C35: isLoading is true whenever a chat request is in flight, also when
\* sends overlap and one of them has completed, and it is false once none
\* is outstanding.
C35_AsStated ==
  /\ InFlight # {} => isLoading
  /\ Outstanding = {} => ~isLoading

====
